---- MODULE Spec2Model ----
(***************************************************************************)
(* Model of background-worker.js: the proactive-reply scheduler.           *)
(*                                                                         *)
(* The JavaScript event loop runs one macrotask at a time.  A macrotask    *)
(* of this program is: one firing of the setInterval callback up to its    *)
(* first suspension at fetch(), the resumption of a suspended callback     *)
(* when its fetch() settles (again up to the next suspension), one firing  *)
(* of a release setTimeout, or an operation of the surrounding page        *)
(* (the user sending a message, the UI clearing an unread count).  Each    *)
(* macrotask is one action.  document.hidden is read only when the         *)
(* interval callback fires: its value then is an input of that action.     *)
(*                                                                         *)
(* Time is in milliseconds.  Message ids (Date.now() + Math.random()) are  *)
(* not modelled: nothing in the worker reads them.                         *)
(***************************************************************************)
EXTENDS Integers, Sequences, FiniteSets, Bags, TLC

\* ---- program constants ----
PROACTIVE_CHECK_INTERVAL == 15000
PROACTIVE_REPLY_DELAY == 300000
RELEASE_DELAY == 60000

\* ---- bounds ----
MaxSteps == 6          \* intervals of time a run covers
MaxUserSends == 1      \* messages the user sends during a run

ContactIds == {"c1", "c2"}
ContactList == <<[id |-> "c1"], [id |-> "c2"]>>
StartTime == PROACTIVE_REPLY_DELAY
MaxTime == StartTime + MaxSteps * PROACTIVE_CHECK_INTERVAL

VARIABLES
    now,          \* Date.now()
    chatSettings, \* localStorage 'chatSettings': id -> settings, keys may be absent
    contacts,     \* localStorage 'contacts'
    chats,        \* localStorage 'chats': id -> transcript, keys may be absent
    unreadCounts, \* localStorage 'unreadCounts': id -> count, keys may be absent
    apiUrl,       \* localStorage 'apiUrl'  (Null when absent)
    apiKey,       \* localStorage 'apiKey'  (Null when absent)
    processing,   \* sessionStorage 'processing_<id>' present?
    timers,       \* bag of pending release setTimeouts [c, at]
    nextTick,     \* earliest time of the next setInterval firing
    ticks,        \* suspended setInterval callbacks, each awaiting a fetch:
                  \* the values it loaded (snap), its contact number (i) and
                  \* its local now (line 69)
    userSends,    \* number of messages the user has sent
    last,         \* what the last macrotask did (observation only)
    trial         \* the inputs of a trial of one operation and what it has
                  \* done so far (NoTrial in the runs of the whole worker)

vars == <<now, chatSettings, contacts, chats, unreadCounts, apiUrl,
          apiKey, processing, timers, nextTick, ticks, userSends, last, trial>>

\* ---- JavaScript values ----
Null == [t |-> "null"]
Undefined == [t |-> "undefined"]
Str(s) == [t |-> "str", s |-> s]          \* s: a sequence of characters
Threw == [t |-> "throw"]

EmptyMap == [k \in {} |-> 0]
Put(m, k, v) == [x \in (DOMAIN m) \cup {k} |-> IF x = k THEN v ELSE m[x]]
Remove(m, k) == [x \in (DOMAIN m) \ {k} |-> m[x]]

\* allChats[contactId] || []
HistoryOf(allChats, c) == IF c \in DOMAIN allChats THEN allChats[c] ELSE <<>>

Msg(role, content, ts) == [role |-> role, content |-> content, timestamp |-> ts]

\* ---- JSON.parse, on texts given as sequences of characters ----
\* Subset: objects, arrays, strings without escapes, unsigned integers,
\* null/true/false, blanks as whitespace.
Digits == {"0", "1", "2", "3", "4", "5", "6", "7", "8", "9"}
Fail == [ok |-> FALSE, v |-> Null, i |-> 0]
Ok(v, i) == [ok |-> TRUE, v |-> v, i |-> i]

RECURSIVE SkipWs(_, _)
SkipWs(s, i) == IF i <= Len(s) /\ s[i] = " " THEN SkipWs(s, i + 1) ELSE i

\* index of the closing quote at or after i, 0 when there is none
RECURSIVE ScanString(_, _)
ScanString(s, i) ==
    IF i > Len(s) THEN 0
    ELSE IF s[i] = "\"" THEN i
    ELSE IF s[i] = "\\" THEN 0
    ELSE ScanString(s, i + 1)

RECURSIVE ScanDigits(_, _)
ScanDigits(s, i) == IF i <= Len(s) /\ s[i] \in Digits THEN ScanDigits(s, i + 1) ELSE i

HasLit(s, i, lit) == i + Len(lit) - 1 <= Len(s) /\ SubSeq(s, i, i + Len(lit) - 1) = lit

RECURSIVE ParseValue(_, _)
RECURSIVE ParseElems(_, _, _)
RECURSIVE ParseMembers(_, _, _)
ParseValue(s, i0) ==
    LET i == SkipWs(s, i0) IN
    IF i > Len(s) THEN Fail
    ELSE IF s[i] = "\"" THEN
        LET j == ScanString(s, i + 1) IN
        IF j = 0 THEN Fail ELSE Ok(Str(SubSeq(s, i + 1, j - 1)), j + 1)
    ELSE IF s[i] = "[" THEN
        LET k == SkipWs(s, i + 1) IN
        IF k <= Len(s) /\ s[k] = "]" THEN Ok([t |-> "arr", a |-> <<>>], k + 1)
        ELSE ParseElems(s, i + 1, <<>>)
    ELSE IF s[i] = "{" THEN
        LET k == SkipWs(s, i + 1) IN
        IF k <= Len(s) /\ s[k] = "}" THEN Ok([t |-> "obj", m |-> EmptyMap], k + 1)
        ELSE ParseMembers(s, i + 1, EmptyMap)
    ELSE IF s[i] \in Digits THEN
        LET j == ScanDigits(s, i) IN
        IF s[i] = "0" /\ j > i + 1 THEN Fail
        ELSE Ok([t |-> "num", zero |-> (s[i] = "0")], j)
    ELSE IF HasLit(s, i, <<"n", "u", "l", "l">>) THEN Ok(Null, i + 4)
    ELSE IF HasLit(s, i, <<"t", "r", "u", "e">>) THEN Ok([t |-> "bool", b |-> TRUE], i + 4)
    ELSE IF HasLit(s, i, <<"f", "a", "l", "s", "e">>) THEN Ok([t |-> "bool", b |-> FALSE], i + 5)
    ELSE Fail

ParseElems(s, i, acc) ==
    LET r == ParseValue(s, i) IN
    IF ~r.ok THEN Fail
    ELSE LET k == SkipWs(s, r.i) IN
         IF k > Len(s) THEN Fail
         ELSE IF s[k] = "," THEN ParseElems(s, k + 1, Append(acc, r.v))
         ELSE IF s[k] = "]" THEN Ok([t |-> "arr", a |-> Append(acc, r.v)], k + 1)
         ELSE Fail

ParseMembers(s, i, acc) ==
    LET q == SkipWs(s, i) IN
    IF q > Len(s) \/ s[q] # "\"" THEN Fail
    ELSE LET j == ScanString(s, q + 1) IN
         IF j = 0 THEN Fail
         ELSE LET key == SubSeq(s, q + 1, j - 1)
                  c == SkipWs(s, j + 1)
              IN IF c > Len(s) \/ s[c] # ":" THEN Fail
                 ELSE LET r == ParseValue(s, c + 1) IN
                      IF ~r.ok THEN Fail
                      ELSE LET k == SkipWs(s, r.i) IN
                           IF k > Len(s) THEN Fail
                           ELSE IF s[k] = "," THEN ParseMembers(s, k + 1, Put(acc, key, r.v))
                           ELSE IF s[k] = "}" THEN
                               Ok([t |-> "obj", m |-> Put(acc, key, r.v)], k + 1)
                           ELSE Fail

\* JSON.parse(x): the parsed value, or Threw.  A non-string argument is
\* converted to a string first: null reads "null", undefined reads "undefined".
JSONparse(x) ==
    IF x.t = "null" THEN Null
    ELSE IF x.t # "str" THEN Threw
    ELSE LET r == ParseValue(x.s, 1) IN
         IF r.ok /\ SkipWs(x.s, r.i) > Len(x.s) THEN r.v ELSE Threw

\* JavaScript truthiness of a parsed JSON value
Truthy(v) ==
    CASE v.t = "null" -> FALSE
      [] v.t = "bool" -> v.b
      [] v.t = "num" -> ~v.zero
      [] v.t = "str" -> v.s # <<>>
      [] OTHER -> TRUE

NonEmpty(m) == m.s # <<>>

\* m.trim() !== ""
NonBlank(m) == \E i \in 1..Len(m.s) : m.s[i] # " "

REPLIES == <<"r", "e", "p", "l", "i", "e", "s">>

\* Array.isArray(parsedReply.replies)
HasRepliesArray(v) ==
    /\ v.t = "obj"
    /\ REPLIES \in DOMAIN v.m
    /\ v.m[REPLIES].t = "arr"

\* lines 98-110 of triggerGlobalAiReply: replyMessages computed from rawReply
ReplyMessages(rawReply) ==
    LET parsedReply == JSONparse(rawReply) IN
    IF parsedReply = Threw THEN <<rawReply>>
    ELSE IF Truthy(parsedReply) /\ HasRepliesArray(parsedReply) THEN
        LET replies == parsedReply.m[REPLIES].a IN
        IF \E i \in 1..Len(replies) : replies[i].t # "str"
        THEN <<rawReply>>      \* m.trim is not a function: caught at line 108
        ELSE SelectSeq(replies, NonBlank)
    ELSE <<rawReply>>

\* ---- raw texts used in the runs ----
TxtTwo == <<"{", "\"", "r", "e", "p", "l", "i", "e", "s", "\"", ":", "[",
            "\"", "A", "\"", ",", "\"", "B", "\"", "]", "}">>
TxtBlanks == <<"{", "\"", "r", "e", "p", "l", "i", "e", "s", "\"", ":", "[",
               "\"", "\"", ",", "\"", " ", " ", "\"", ",", "\"", "C", "\"", "]", "}">>
TxtAllBlank == <<"{", "\"", "r", "e", "p", "l", "i", "e", "s", "\"", ":", "[",
                 "\"", " ", "\"", "]", "}">>
TxtHello == <<"h", "e", "l", "l", "o">>
TxtFoo == <<"{", "\"", "f", "o", "o", "\"", ":", "1", "}">>
TxtNum == <<"{", "\"", "r", "e", "p", "l", "i", "e", "s", "\"", ":", "[", "1", "]", "}">>
\* ---- unread ledger (lines 16-38) ----
incrementUnreadCountByOne(counts, contactId, messageCount) ==
    Put(counts, contactId,
        (IF contactId \in DOMAIN counts THEN counts[contactId] ELSE 0) + 1)

incrementUnreadCountFresh(counts, contactId, messageCount) ==
    Put(counts, contactId, messageCount)

incrementUnreadCount(counts, contactId, messageCount) ==
    Put(counts, contactId,
        (IF contactId \in DOMAIN counts THEN counts[contactId] ELSE 0) + messageCount)

clearUnreadCountToZero(counts, contactId) ==
    IF contactId \in DOMAIN counts /\ counts[contactId] # 0
    THEN Put(counts, contactId, 0)
    ELSE counts

\* line 33: whether clearUnreadCount reaches saveUnreadCounts
clearWrites(counts, contactId) == contactId \in DOMAIN counts /\ counts[contactId] # 0

clearUnreadCount(counts, contactId) ==
    IF contactId \in DOMAIN counts /\ counts[contactId] # 0
    THEN Remove(counts, contactId)
    ELSE counts

\* ---- the completion call (lines 137-211) ----
\* A response of the service: the fetch promise rejects, or it resolves with
\* a status (ok or not) and a body; data is what res.json() yields, Threw
\* when the body is not JSON.  A JSON body is a record whose fields are the
\* members it has.
BodyOf(content) == [choices |-> <<[message |-> [content |-> content]]>>]
BodyNoContent == [choices |-> <<[message |-> [role |-> Str(<<"a">>)]]>>]
BodyNoChoices == [choices |-> <<>>]
Texts == {TxtTwo, TxtHello, TxtAllBlank}
Responses ==
    {[rejected |-> TRUE, ok |-> FALSE, data |-> Threw],
     [rejected |-> FALSE, ok |-> FALSE, data |-> Threw],
     [rejected |-> FALSE, ok |-> TRUE, data |-> Threw],
     [rejected |-> FALSE, ok |-> TRUE, data |-> BodyNoChoices],
     [rejected |-> FALSE, ok |-> TRUE, data |-> BodyNoContent]}
    \cup {[rejected |-> FALSE, ok |-> TRUE, data |-> BodyOf(Str(x))] : x \in Texts}

\* data.choices[0].message.content (line 210)
ContentOf(data) ==
    IF data = Threw THEN Threw
    ELSE IF "choices" \notin DOMAIN data THEN Threw
    ELSE IF Len(data.choices) = 0 THEN Threw
    ELSE IF "message" \notin DOMAIN data.choices[1] THEN Threw
    ELSE IF "content" \notin DOMAIN data.choices[1].message THEN Undefined
    ELSE data.choices[1].message.content

\* lines 138-149: the call throws before any request is sent
ThrowsBeforeFetch(contactId) ==
    \/ apiUrl = Null
    \/ apiKey = Null
    \/ ~\E i \in 1..Len(contacts) : contacts[i].id = contactId

\* lines 194-210: what the awaited call yields for a response
callGlobalAiApi(resp) ==
    IF resp.rejected THEN Threw
    ELSE IF ~resp.ok THEN Threw
    ELSE ContentOf(resp.data)

\* lines 117-122
NewMessages(replyMessages, t) ==
    [i \in 1..Len(replyMessages) |-> Msg("assistant", replyMessages[i], t)]

\* localStorage.setItem can throw (the quota is exceeded): fault names the
\* key whose write throws during this attempt, "none" when every write
\* succeeds.
Faults == {"none", "chats", "unreadCounts"}

\* lines 131-134: the catch that encloses the whole body.  raised is the
\* error raised inside the body, propagated whether the promise returned to
\* the caller rejects.
Catch131(allChats, counts, raised) ==
    [chats |-> allChats, unreadCounts |-> counts, raised |-> raised,
     propagated |-> FALSE]

triggerGlobalAiReplyOverwrites(allChats, counts, contactId, rawReply, t, fault) ==
    IF rawReply = Threw THEN Catch131(allChats, counts, "api")
    ELSE LET replyMessages == ReplyMessages(rawReply) IN
         IF Len(replyMessages) > 0
         THEN Catch131(Put(allChats, contactId, NewMessages(replyMessages, t)),
                       incrementUnreadCount(counts, contactId, Len(replyMessages)), "none")
         ELSE Catch131(allChats, counts, "none")

\* lines 95-135: the stores after the call has yielded rawReply (or Threw)
triggerGlobalAiReply(allChats, counts, contactId, rawReply, t, fault) ==
    IF rawReply = Threw THEN Catch131(allChats, counts, "api")
    ELSE LET replyMessages == ReplyMessages(rawReply)
             newChats == Put(allChats, contactId,
                             HistoryOf(allChats, contactId) \o NewMessages(replyMessages, t))
         IN IF Len(replyMessages) > 0
            THEN IF fault = "chats"             \* line 125 throws
                 THEN Catch131(allChats, counts, "storage")
                 ELSE IF fault = "unreadCounts" \* line 21, called from line 128, throws
                 THEN Catch131(newChats, counts, "storage")
                 ELSE Catch131(newChats,
                               incrementUnreadCount(counts, contactId, Len(replyMessages)),
                               "none")
            ELSE Catch131(allChats, counts, "none")

\* ---- the scan (lines 52-90) ----
Snapshot == [chatSettings |-> chatSettings, contacts |-> contacts, chats |-> chats]

ProactiveAlways(allSettings, contactId) == TRUE

\* line 62: settings && settings.proactive
Proactive(allSettings, contactId) ==
    contactId \in DOMAIN allSettings /\ allSettings[contactId].proactive

IdleAtLeast(t, lastMsg) == t - lastMsg.timestamp >= PROACTIVE_REPLY_DELAY

\* line 70
IdleLongEnough(t, lastMsg) == t - lastMsg.timestamp > PROACTIVE_REPLY_DELAY

\* lines 62-70
IsDue(snap, contactId, t) ==
    /\ Proactive(snap.chatSettings, contactId)
    /\ LET history == HistoryOf(snap.chats, contactId) IN
       /\ Len(history) # 0
       /\ history[Len(history)].role = "user"
       /\ IdleLongEnough(t, history[Len(history)])

SkipsScanNever(docHidden) == FALSE

\* lines 48-50: if (document.hidden) return
SkipsScan(docHidden) == docHidden

GuardedNever(flags, contactId) == FALSE

\* line 75: sessionStorage.getItem(processingFlag)
Guarded(flags, contactId) == flags[contactId]

AfterAttemptClearsNow(st, contactId) == [st EXCEPT !.processing[contactId] = FALSE]

AfterAttemptForgets(st, contactId) == st

\* lines 84-87: the finally block
AfterAttempt(st, contactId) ==
    [st EXCEPT !.timers = @ (+) SetToBag({[c |-> contactId, at |-> now + RELEASE_DELAY]})]

AfterFailureEndsScan(st, contactId) ==
    [st EXCEPT !.failed = @ \cup {contactId}, !.go = FALSE]

\* lines 131-134 and 82-83: a failed attempt is caught; the loop goes on
AfterFailure(st, contactId) == [st EXCEPT !.failed = @ \cup {contactId}]

AfterRefusalSchedulesRelease(st, contactId) ==
    [st EXCEPT !.refused = @ \cup {contactId},
               !.timers = @ (+) SetToBag({[c |-> contactId, at |-> now + RELEASE_DELAY]})]

\* line 75: continue, before the try block is entered
AfterRefusal(st, contactId) == [st EXCEPT !.refused = @ \cup {contactId}]

\* the loop's working state; go: no uncaught exception has ended the callback
LoopStart ==
    [processing |-> processing, timers |-> timers, i |-> 0, go |-> TRUE,
     scanned |-> {}, due |-> {}, admitted |-> {}, refused |-> {},
     failed |-> {}, fetched |-> {}]

\* lines 57-90 from contact number i on, up to the next await of a fetch
\* (result .i = its contact number) or the end of the list (.i = 0)
RECURSIVE RunLoop(_, _, _)
RunLoop(snap, i, st) ==
    IF i > Len(snap.contacts) \/ ~st.go THEN [st EXCEPT !.i = 0]
    ELSE LET contactId == snap.contacts[i].id
             st1 == [st EXCEPT !.scanned = @ \cup {contactId}]
         IN IF ~IsDue(snap, contactId, now) THEN RunLoop(snap, i + 1, st1)
            ELSE LET st2 == [st1 EXCEPT !.due = @ \cup {contactId}] IN
                 IF Guarded(st2.processing, contactId)
                 THEN RunLoop(snap, i + 1, AfterRefusal(st2, contactId))
                 ELSE LET st3 == [st2 EXCEPT !.processing[contactId] = TRUE,
                                             !.admitted = @ \cup {contactId}]
                      IN IF ThrowsBeforeFetch(contactId)
                         THEN RunLoop(snap, i + 1,
                                      AfterAttempt(AfterFailure(st3, contactId), contactId))
                         ELSE [st3 EXCEPT !.i = i, !.fetched = @ \cup {contactId}]
\* ---- observation of the last macrotask ----
NoLast ==
    [op |-> "none", c |-> "-", hidden |-> FALSE,
     snap |-> [chatSettings |-> EmptyMap, contacts |-> <<>>, chats |-> EmptyMap],
     from |-> 0, scanned |-> {}, due |-> {}, admitted |-> {}, refused |-> {},
     failed |-> {}, fetched |-> {}, resp |-> "none", raw |-> Threw, ended |-> FALSE,
     fault |-> "none", raised |-> "none", propagated |-> FALSE]

Observe(op, c, snap, from, st) ==
    [NoLast EXCEPT !.op = op, !.c = c, !.snap = snap, !.from = from,
                   !.scanned = st.scanned, !.due = st.due, !.admitted = st.admitted,
                   !.refused = st.refused, !.failed = st.failed,
                   !.fetched = st.fetched, !.ended = (st.i = 0)]

\* the response as the interface description classifies it
Classify(resp) ==
    IF resp.rejected \/ ~resp.ok THEN "error"
    ELSE IF ContentOf(resp.data) \in {Threw, Undefined, Null} THEN "malformed"
    ELSE "text"

\* ---- initial states ----
NoTrial == [kind |-> "none"]
InitSettings == {[proactive |-> TRUE], [proactive |-> FALSE]}
UserMsg0 == Msg("user", Str(<<"q">>), 0)
InitTranscripts == {<<>>, <<UserMsg0>>, <<UserMsg0, Msg("assistant", Str(<<"a">>), 0)>>}
InitConfigs == {<<Str(<<"u">>), Str(<<"k">>)>>, <<Null, Str(<<"k">>)>>, <<Str(<<"u">>), Null>>}
Maps(K, V) == UNION {[D -> V] : D \in SUBSET K}

Init ==
    /\ now = StartTime
    /\ chatSettings \in Maps(ContactIds, InitSettings)
    /\ contacts = ContactList
    /\ chats \in Maps(ContactIds, InitTranscripts)
    /\ unreadCounts = EmptyMap
    /\ \E cfg \in InitConfigs : apiUrl = cfg[1] /\ apiKey = cfg[2]
    /\ processing = [c \in ContactIds |-> FALSE]
    /\ timers = EmptyBag
    /\ nextTick = StartTime
    /\ ticks = <<>>
    /\ userSends = 0
    /\ last = NoLast
    /\ trial = NoTrial

\* ---- actions ----
\* one firing of the setInterval callback (lines 46-91), up to its first await
Tick(docHidden) ==
    /\ now >= nextTick
    /\ nextTick' = now + PROACTIVE_CHECK_INTERVAL
    /\ LET snap == Snapshot
           st == IF SkipsScan(docHidden) THEN LoopStart ELSE RunLoop(snap, 1, LoopStart)
       IN /\ processing' = st.processing
          /\ timers' = st.timers
          /\ ticks' = IF st.i = 0 THEN ticks
                      ELSE Append(ticks, [snap |-> snap, i |-> st.i, now |-> now])
          /\ last' = [Observe("tick", "-", snap, 1, st) EXCEPT !.hidden = docHidden]
    /\ UNCHANGED <<trial, now, chatSettings, contacts, chats, unreadCounts,
                   apiUrl, apiKey, userSends>>

RemoveAt(seq, k) == SubSeq(seq, 1, k - 1) \o SubSeq(seq, k + 1, Len(seq))

\* the fetch awaited by suspended callback k settles with resp: the rest of
\* triggerGlobalAiReply, the finally block, and the loop up to its next await.
\* fault: the storage write that throws during this step, if any.
CallReturn(k, resp, fault) ==
    /\ k \in DOMAIN ticks
    /\ LET tk == ticks[k]
           contactId == tk.snap.contacts[tk.i].id
           rawReply == callGlobalAiApi(resp)
           stores == triggerGlobalAiReply(chats, unreadCounts, contactId, rawReply,
                                          now, fault)
           st0 == IF rawReply = Threw THEN AfterFailure(LoopStart, contactId)
                  ELSE LoopStart
           st == RunLoop(tk.snap, tk.i + 1, AfterAttempt(st0, contactId))
       IN /\ chats' = stores.chats
          /\ unreadCounts' = stores.unreadCounts
          /\ processing' = st.processing
          /\ timers' = st.timers
          /\ ticks' = IF st.i = 0 THEN RemoveAt(ticks, k)
                      ELSE [ticks EXCEPT ![k].i = st.i, ![k].now = now]
          /\ last' = [Observe("return", contactId, tk.snap, tk.i + 1, st)
                         EXCEPT !.resp = Classify(resp), !.raw = rawReply,
                                !.fault = fault, !.raised = stores.raised,
                                !.propagated = stores.propagated]
    /\ UNCHANGED <<trial, now, chatSettings, contacts, apiUrl, apiKey, nextTick,
                   userSends>>

TimerFireWrongKey(tm) ==
    /\ tm \in BagToSet(timers)
    /\ tm.at <= now
    /\ timers' = timers (-) SetToBag({tm})
    /\ last' = NoLast
    /\ UNCHANGED <<trial, now, chatSettings, contacts, chats, unreadCounts,
                   apiUrl, apiKey, nextTick, ticks, userSends, processing>>

\* a release setTimeout fires (line 86)
TimerFire(tm) ==
    /\ tm \in BagToSet(timers)
    /\ tm.at <= now
    /\ timers' = timers (-) SetToBag({tm})
    /\ processing' = [processing EXCEPT ![tm.c] = FALSE]
    /\ last' = NoLast
    /\ UNCHANGED <<trial, now, chatSettings, contacts, chats, unreadCounts,
                   apiUrl, apiKey, nextTick, ticks, userSends>>

LastRole(history) == IF Len(history) = 0 THEN "none" ELSE history[Len(history)].role

\* the user answers the assistant in conversation c (written by the chat page)
UserSend(c) ==
    /\ userSends < MaxUserSends
    /\ LastRole(HistoryOf(chats, c)) = "assistant"
    /\ userSends' = userSends + 1
    /\ chats' = Put(chats, c, HistoryOf(chats, c) \o <<Msg("user", Str(<<"q">>), now)>>)
    /\ last' = NoLast
    /\ UNCHANGED <<trial, now, chatSettings, contacts, unreadCounts, apiUrl,
                   apiKey, processing, timers, nextTick, ticks>>

\* the chat page opens conversation c: clearUnreadCount (lines 31-38)
ClearUnread(c) ==
    /\ c \in DOMAIN unreadCounts
    /\ unreadCounts' = clearUnreadCount(unreadCounts, c)
    /\ last' = NoLast
    /\ UNCHANGED <<trial, now, chatSettings, contacts, chats, apiUrl, apiKey,
                   processing, timers, nextTick, ticks, userSends>>

\* time passes, one check interval at a time; a timer that is due fires
\* before more time passes
AdvanceTime ==
    /\ now < MaxTime
    /\ now < nextTick
    /\ \A tm \in BagToSet(timers) : tm.at > now
    /\ now' = now + PROACTIVE_CHECK_INTERVAL
    /\ last' = NoLast
    /\ UNCHANGED <<trial, chatSettings, contacts, chats, unreadCounts, apiUrl,
                   apiKey, processing, timers, nextTick, ticks, userSends>>

Next ==
    \/ \E docHidden \in BOOLEAN : Tick(docHidden)
    \/ \E k \in 1..Len(ticks), resp \in Responses : CallReturn(k, resp, "none")
    \/ \E tm \in BagToSet(timers) : TimerFire(tm)
    \/ \E c \in ContactIds : UserSend(c)
    \/ \E c \in ContactIds : ClearUnread(c)
    \/ AdvanceTime

\* the worker as a whole, on a store whose writes succeed
Spec == Init /\ [][Next]_vars
\* ---- one delivery, over a wide range of response texts ----
MaxElems == 3          \* entries of a replies array

\* the entries a replies array is built from, as JSON values
Entries ==
    {Str(<<>>), Str(<<" ", " ">>), Str(<<"A">>), Str(<<"C">>),
     [t |-> "num", zero |-> FALSE], Null}

\* the JSON text of an entry
RenderEntry(e) ==
    CASE e.t = "str" -> <<"\"">> \o e.s \o <<"\"">>
      [] e.t = "num" -> <<"1">>
      [] OTHER -> <<"n", "u", "l", "l">>

Sep(spaced) == IF spaced THEN <<" ">> ELSE <<>>

RECURSIVE RenderElems(_, _)
RenderElems(es, spaced) ==
    IF Len(es) = 0 THEN <<>>
    ELSE IF Len(es) = 1 THEN RenderEntry(es[1])
    ELSE RenderEntry(es[1]) \o <<",">> \o Sep(spaced) \o RenderElems(Tail(es), spaced)

\* {"replies":[...]}, compact or with blanks between the tokens
RenderReplies(es, spaced) ==
    <<"{">> \o Sep(spaced) \o <<"\"">> \o REPLIES \o <<"\"", ":">> \o Sep(spaced)
        \o <<"[">> \o RenderElems(es, spaced) \o <<"]">> \o Sep(spaced) \o <<"}">>

SeqsUpTo(S, n) == UNION {[1..k -> S] : k \in 0..n}

\* texts that are not JSON
PlainTexts == {TxtHello, <<>>, <<" ", " ">>, <<"{">>}

\* JSON texts of another shape
OtherJson ==
    {TxtFoo,
     <<"{", "\"", "r", "e", "p", "l", "i", "e", "s", "\"", ":", "\"", "A", "\"", "}">>,
     <<"n", "u", "l", "l">>, <<"[", "]">>, <<"\"", "A", "\"">>, <<"1">>, <<"0">>,
     <<"{", "}">>}

\* the response texts of a trial, each with what it was built from
ReplyInputs ==
    {[kind |-> "replies", elems |-> es, text |-> RenderReplies(es, sp)] :
        es \in SeqsUpTo(Entries, MaxElems), sp \in BOOLEAN}
    \cup {[kind |-> "plain", elems |-> <<>>, text |-> x] : x \in PlainTexts}
    \cup {[kind |-> "json", elems |-> <<>>, text |-> x] : x \in OtherJson}

OkText(x) == [rejected |-> FALSE, ok |-> TRUE, data |-> BodyOf(Str(x))]

\* the worker right after a tick has admitted c1 and awaits its completion
\* call; the text the service is about to answer with is the trial's input
ReplyInit ==
    /\ now = StartTime + PROACTIVE_CHECK_INTERVAL
    /\ chatSettings = [c \in ContactIds |-> [proactive |-> TRUE]]
    /\ contacts = ContactList
    /\ \E other \in Maps({"c2"}, {<<UserMsg0>>}) :
          chats = Put(other, "c1", <<UserMsg0>>)
    /\ unreadCounts \in {EmptyMap, [c \in {"c1"} |-> 2]}
    /\ apiUrl = Str(<<"u">>)
    /\ apiKey = Str(<<"k">>)
    /\ processing = [c \in ContactIds |-> c = "c1"]
    /\ timers = EmptyBag
    /\ nextTick = now + PROACTIVE_CHECK_INTERVAL
    /\ ticks = <<[snap |-> Snapshot, i |-> 1, now |-> now]>>
    /\ userSends = 0
    /\ last = NoLast
    /\ \E x \in ReplyInputs : trial = [kind |-> "reply", input |-> x]

ReplyNext == \E fault \in Faults : CallReturn(1, OkText(trial.input.text), fault)

ReplySpec == ReplyInit /\ [][ReplyNext]_vars
\* ---- the unread ledger on its own ----
MaxOps == 3            \* ledger operations of a trial
Sizes == 1..MaxElems   \* newMessages.length (line 128)

\* a ledger the worker has written: every key it holds counts at least 1
LedgerInit ==
    /\ now = StartTime
    /\ chatSettings = EmptyMap
    /\ contacts = ContactList
    /\ chats = EmptyMap
    /\ unreadCounts \in Maps(ContactIds, 1..2)
    /\ apiUrl = Null
    /\ apiKey = Null
    /\ processing = [c \in ContactIds |-> FALSE]
    /\ timers = EmptyBag
    /\ nextTick = StartTime
    /\ ticks = <<>>
    /\ userSends = 0
    /\ last = NoLast
    /\ trial = [kind |-> "ledger", start |-> unreadCounts, ops |-> 0,
                incs |-> [c \in ContactIds |-> <<>>], cleared |-> {},
                op |-> "none", c |-> "-", wrote |-> FALSE]

\* incrementUnreadCount(c, n) (lines 24-29)
LedgerIncrement(c, n) ==
    /\ trial.ops < MaxOps
    /\ unreadCounts' = incrementUnreadCount(unreadCounts, c, n)
    /\ trial' = [trial EXCEPT !.ops = @ + 1, !.incs[c] = Append(@, n),
                              !.op = "increment", !.c = c, !.wrote = TRUE]
    /\ UNCHANGED <<now, chatSettings, contacts, chats, apiUrl, apiKey,
                   processing, timers, nextTick, ticks, userSends, last>>

\* clearUnreadCount(c) (lines 31-38)
LedgerClear(c) ==
    /\ trial.ops < MaxOps
    /\ unreadCounts' = clearUnreadCount(unreadCounts, c)
    /\ trial' = [trial EXCEPT !.ops = @ + 1, !.cleared = @ \cup {c},
                              !.op = "clear", !.c = c,
                              !.wrote = clearWrites(unreadCounts, c)]
    /\ UNCHANGED <<now, chatSettings, contacts, chats, apiUrl, apiKey,
                   processing, timers, nextTick, ticks, userSends, last>>

LedgerNext ==
    \/ \E c \in ContactIds, n \in Sizes : LedgerIncrement(c, n)
    \/ \E c \in ContactIds : LedgerClear(c)

LedgerSpec == LedgerInit /\ [][LedgerNext]_vars
\* ---- the worker over unbounded time ----
\* Once the clock has reached MaxTime it is read against a sliding origin:
\* instead of now growing by an interval, every stored time drops by one
\* (not below 0).  The worker only compares differences of times, and an
\* age that has reached MaxTime is beyond the idle threshold for good, so
\* the slide changes nothing the worker can observe.  A time the worker
\* never reads drops to 0 at once: the timestamp of an assistant message
\* (line 67 leaves before line 70 reads it) and the local now of a suspended
\* callback (line 69, not used after line 70).
Slide(t) == IF t >= PROACTIVE_CHECK_INTERVAL THEN t - PROACTIVE_CHECK_INTERVAL ELSE 0
SlideMessage(m) == [m EXCEPT !.timestamp = IF m.role = "user" THEN Slide(@) ELSE 0]
SlideHistory(h) == [i \in 1..Len(h) |-> SlideMessage(h[i])]
SlideChats(allChats) == [c \in DOMAIN allChats |-> SlideHistory(allChats[c])]
SlideTimers(b) ==
    LET S == BagToSet(b)
        Moved(u) == {tm \in S : [tm EXCEPT !.at = Slide(@)] = u}
        T == {[tm EXCEPT !.at = Slide(@)] : tm \in S}
    IN [u \in T |-> CopiesIn(CHOOSE tm \in Moved(u) : TRUE, b)]

TimeSlides ==
    /\ now = MaxTime
    /\ now < nextTick
    /\ \A tm \in BagToSet(timers) : tm.at > now
    /\ nextTick' = Slide(nextTick)
    /\ timers' = SlideTimers(timers)
    /\ chats' = SlideChats(chats)
    /\ ticks' = [k \in DOMAIN ticks |->
                    [ticks[k] EXCEPT !.now = 0, !.snap.chats = SlideChats(@)]]
    /\ last' = NoLast
    /\ UNCHANGED <<trial, now, chatSettings, contacts, unreadCounts, apiUrl, apiKey,
                   processing, userSends>>

LiveResponses ==
    {[rejected |-> TRUE, ok |-> FALSE, data |-> Threw], OkText(TxtTwo), OkText(TxtAllBlank)}

\* two conversations, both waiting for an answer; the service is configured
\* or not
LiveInit ==
    /\ Init
    /\ chatSettings = [c \in ContactIds |-> [proactive |-> TRUE]]
    /\ chats = [c \in ContactIds |-> <<UserMsg0>>]
    /\ apiKey # Null

LiveNext ==
    \/ Tick(FALSE)
    \/ \E k \in 1..Len(ticks), resp \in LiveResponses : CallReturn(k, resp, "none")
    \/ \E tm \in BagToSet(timers) : TimerFire(tm)
    \/ AdvanceTime
    \/ TimeSlides

\* the page stays visible and the interval keeps firing; every completion
\* call returns; every release timer fires; time passes
LiveSpec ==
    /\ LiveInit
    /\ [][LiveNext]_vars
    /\ WF_vars(Tick(FALSE))
    /\ WF_vars(\E resp \in LiveResponses : CallReturn(1, resp, "none"))
    /\ WF_vars(\E resp \in LiveResponses : CallReturn(2, resp, "none"))
    /\ WF_vars(\E tm \in BagToSet(timers) : TimerFire(tm))
    /\ WF_vars(AdvanceTime)
    /\ WF_vars(TimeSlides)
\* ---- properties ----
TimersOf(c) == {tm \in BagToSet(timers) : tm.c = c}
NumTimers(c) == LET S == TimersOf(c) IN
    IF S = {} THEN 0 ELSE CopiesIn(CHOOSE tm \in S : TRUE, timers) + Cardinality(S) - 1
InFlight(c) == {k \in DOMAIN ticks : ticks[k].snap.contacts[ticks[k].i].id = c}
UnreadIn(counts, c) == IF c \in DOMAIN counts THEN counts[c] ELSE 0
Unread(c) == UnreadIn(unreadCounts, c)
Worked == last.op \in {"tick", "return"}
Position(snap, c) == CHOOSE i \in 1..Len(snap.contacts) : snap.contacts[i].id = c

\* eligibility read off a snapshot, condition by condition
SettingOn(snap, c) == c \in DOMAIN snap.chatSettings /\ snap.chatSettings[c].proactive = TRUE
SnapHistory(snap, c) == IF c \in DOMAIN snap.chats THEN snap.chats[c] ELSE <<>>
HumanLast(snap, c) ==
    LET h == SnapHistory(snap, c) IN Len(h) > 0 /\ h[Len(h)].role = "user"
Age(snap, c, t) == LET h == SnapHistory(snap, c) IN t - h[Len(h)].timestamp
DueOn(snap, c, t) ==
    SettingOn(snap, c) /\ HumanLast(snap, c) /\ Age(snap, c, t) > 300000

\* C1: at most one generation attempt per conversation is in flight: while an
\* attempt for a conversation is unfinished its flag is set, no second
\* callback awaits a call for it, and no step starts another attempt for it.
C1_OneAttemptInFlight ==
    [][\A c \in ContactIds :
          /\ Cardinality(InFlight(c)) <= 1
          /\ InFlight(c) # {} => processing[c] /\ c \notin last'.admitted]_vars

C1_Witness ==
    /\ last.op = "tick"
    /\ "c1" \in last.refused
    /\ InFlight("c1") # {}
    /\ Len(ticks) = 2

\* C2: cooldown.  When an attempt finishes, by delivery or by failure, the
\* flag stays set and a release timer for now + 60000 is pending; the flag
\* is cleared only by that timer firing, no earlier than its deadline; and
\* while the flag is set no step admits the conversation.
AttemptEnds(c) == (last'.op = "return" /\ last'.c = c) \/ c \in last'.failed
C2_Cooldown ==
    [][\A c \in ContactIds :
          /\ AttemptEnds(c) =>
                processing'[c] /\ [c |-> c, at |-> now + 60000] \in BagToSet(timers')
          /\ processing[c] /\ ~processing'[c] =>
                \E tm \in BagToSet(timers) :
                    tm.c = c /\ tm.at <= now /\ timers' = timers (-) SetToBag({tm})
          /\ processing[c] => c \notin last'.admitted
          /\ NumTimers(c) <= 1
          /\ NumTimers(c) = 1 => processing[c]]_vars

C2_Witness ==
    /\ last.op = "tick"
    /\ "c1" \in last.refused
    /\ InFlight("c1") = {}
    /\ NumTimers("c1") = 1
    /\ processing["c1"]

\* C3: a conversation whose proactive setting is false or absent, whose
\* transcript is empty, or whose last message is not human-authored, judged
\* on what the tick loaded, is not marked due by that tick: its flag is not
\* changed and no generation is started for it.
C3_IneligibleNeverDue ==
    [][last'.op \in {"tick", "return"} =>
          \A c \in ContactIds :
              ~SettingOn(last'.snap, c) \/ ~HumanLast(last'.snap, c) =>
                  /\ c \notin last'.due \cup last'.admitted \cup last'.fetched
                  /\ processing'[c] = processing[c]]_vars

C3_Witness ==
    /\ last.op = "tick"
    /\ ~last.hidden
    /\ last.scanned = ContactIds
    /\ \E c, d \in ContactIds :
          /\ SettingOn(last.snap, c)
          /\ Len(SnapHistory(last.snap, c)) > 0
          /\ ~HumanLast(last.snap, c)
          /\ Age(last.snap, c, now) > 300000
          /\ c \notin last.due
          /\ d \in last.admitted

\* C4: a scanned proactive-enabled conversation with a non-empty transcript
\* is marked due iff its last message is human-authored and
\* now - timestamp > 300000; at exactly 300000 it is not due.
C4_DueIffIdleBeyondThreshold ==
    Worked =>
        \A c \in last.scanned :
            SettingOn(last.snap, c) /\ Len(SnapHistory(last.snap, c)) > 0 =>
                /\ c \in last.due <=>
                      (HumanLast(last.snap, c) /\ Age(last.snap, c, now) > 300000)
                /\ Age(last.snap, c, now) = 300000 => c \notin last.due

C4_Witness ==
    /\ last.op = "tick"
    /\ ~last.hidden
    /\ \E c \in last.scanned :
          /\ SettingOn(last.snap, c) /\ HumanLast(last.snap, c)
          /\ Age(last.snap, c, now) = 300000
          /\ c \notin last.due
          /\ ~processing[c]

\* C5: a tick that fires while the page is hidden sets no flag, schedules no
\* release timer, starts no completion call and leaves every transcript and
\* the unread ledger unchanged.
C5_HiddenTickHasNoEffect ==
    [][last'.op = "tick" /\ last'.hidden =>
          /\ UNCHANGED <<processing, timers, ticks, chats, unreadCounts>>
          /\ last'.admitted = {} /\ last'.fetched = {} /\ last'.scanned = {}]_vars

C5_Witness ==
    /\ last.op = "tick"
    /\ last.hidden
    /\ \E c \in ContactIds : DueOn(Snapshot, c, now) /\ ~processing[c]
\* C6: when the completion call of an admitted conversation returns text
\* that parses to k >= 1 reply strings, exactly those strings are appended,
\* in order, as k assistant messages at the end of the stored transcript,
\* and the conversation's unread count grows by exactly k.
C6_DeliveryAppendsReplies ==
    [][last'.op = "return" /\ last'.raw.t = "str" /\ Len(ReplyMessages(last'.raw)) >= 1 =>
          LET c == last'.c
              r == ReplyMessages(last'.raw)
              old == HistoryOf(chats, c)
              new == HistoryOf(chats', c)
          IN /\ Len(new) = Len(old) + Len(r)
             /\ SubSeq(new, 1, Len(old)) = old
             /\ \A i \in 1..Len(r) :
                    new[Len(old) + i].role = "assistant" /\ new[Len(old) + i].content = r[i]
             /\ UnreadIn(unreadCounts', c) = UnreadIn(unreadCounts, c) + Len(r)
             /\ last'.raw = Str(TxtTwo) => r = <<Str(<<"A">>), Str(<<"B">>)>>]_vars

C6_Witness ==
    /\ last.op = "return"
    /\ last.raw = Str(TxtTwo)
    /\ LET h == HistoryOf(chats, last.c) IN
          /\ Len(h) = 3
          /\ h[1].role = "user"
          /\ h[2] = Msg("assistant", Str(<<"A">>), now)
          /\ h[3] = Msg("assistant", Str(<<"B">>), now)
    /\ Unread(last.c) = 2

\* C7: a failed attempt (endpoint or key missing, noticed before any request
\* is sent; a rejected or non-success response; a success body that is not
\* of the expected shape) leaves the transcript and the unread count of its
\* conversation unchanged, is not propagated, and leaves the flag set with
\* the release timer pending for now + 60000.
AttemptFails(c) ==
    \/ c \in last'.failed
    \/ last'.op = "return" /\ last'.c = c /\ last'.resp \in {"error", "malformed"}
C7_FailedAttemptChangesNothing ==
    [][\A c \in ContactIds :
          AttemptFails(c) =>
              /\ HistoryOf(chats', c) = HistoryOf(chats, c)
              /\ UnreadIn(unreadCounts', c) = UnreadIn(unreadCounts, c)
              /\ processing'[c]
              /\ [c |-> c, at |-> now + 60000] \in BagToSet(timers')
              /\ last'.op = "tick" => c \notin last'.fetched]_vars

\* C8: a failed attempt does not end the scan: in the step in which an
\* attempt fails, the next conversation of the list that is due on the
\* tick's snapshot and not guarded is admitted and its generation started,
\* and the interval timer stays armed.
C8_FailureDoesNotStopScan ==
    [][\A c \in last'.failed :
          LET snap == last'.snap
              later == {d \in ContactIds :
                          /\ \E i \in 1..Len(snap.contacts) : snap.contacts[i].id = d
                          /\ Position(snap, d) > Position(snap, c)
                          /\ DueOn(snap, d, now)
                          /\ ~processing[d]}
          IN /\ \A d \in later :
                   (\A e \in later : Position(snap, d) <= Position(snap, e)) =>
                       /\ d \in last'.admitted
                       /\ processing'[d]
                       /\ d \in last'.fetched \cup last'.failed
             /\ nextTick' <= now' + 15000]_vars

C8_Witness ==
    /\ last.op = "return"
    /\ last.c = "c1"
    /\ last.failed = {"c1"}
    /\ last.admitted = {"c2"}
    /\ last.fetched = {"c2"}
    /\ InFlight("c2") # {}

\* C9 (as claimed): a tick admits every conversation that is due and
\* unguarded without waiting for any completion call, so that after the
\* tick's first step every due conversation has been admitted or refused.
C9_TickAdmitsAllDue ==
    last.op = "tick" /\ ~last.hidden =>
        \A c \in ContactIds :
            DueOn(last.snap, c, now) => c \in last.admitted \cup last.refused

\* C10 (as claimed): the release does not depend on the completion call
\* returning: whenever a flag is set, its release timer is pending.
C10_ReleaseIndependentOfReturn ==
    \A c \in ContactIds : processing[c] => NumTimers(c) >= 1

\* C10 (amended): the release timer is scheduled when the attempt finishes.
\* While the attempt is unfinished the flag is set and no release timer is
\* pending, however long the call takes; once the attempt has finished,
\* exactly one release timer is pending for as long as the flag is set.
C10_ReleaseFollowsFinish ==
    \A c \in ContactIds :
        /\ InFlight(c) # {} => processing[c] /\ NumTimers(c) = 0
        /\ processing[c] /\ InFlight(c) = {} =>
               /\ NumTimers(c) = 1
               /\ \A tm \in TimersOf(c) : tm.at <= now + 60000

C10_Witness ==
    \E k \in DOMAIN ticks :
        LET c == ticks[k].snap.contacts[ticks[k].i].id IN
        /\ now - ticks[k].now > 60000
        /\ processing[c]
        /\ NumTimers(c) = 0

\* what a return step has appended to the transcript of its conversation
AppendedIn(old, new, c) ==
    LET h == HistoryOf(old, c)
        g == HistoryOf(new, c)
    IN [i \in 1..(Len(g) - Len(h)) |-> g[Len(h) + i].content]
IsBlankEntry(e) == e.t = "str" /\ \A i \in 1..Len(e.s) : e.s[i] = " "
KeepNonBlank(es) == SelectSeq(es, LAMBDA e : ~IsBlankEntry(e))
AllStrings(es) == \A i \in 1..Len(es) : es[i].t = "str"
Delivers == last'.op = "return" /\ last'.fault = "none" /\ trial.kind = "reply"

\* C11 (as claimed): a text that is JSON for an object with an array field
\* replies yields exactly the non-blank entries of replies, in order; every
\* other text yields the one-element list holding the whole text.
C11_RepliesArrayAlwaysUsed ==
    [][Delivers =>
          LET x == trial.input IN
          AppendedIn(chats, chats', last'.c) =
              IF x.kind = "replies" THEN KeepNonBlank(x.elems) ELSE <<Str(x.text)>>]_vars

\* C11 (amended): a text that is JSON for an object with an array field
\* replies all of whose entries are strings yields exactly the non-blank
\* entries, in order; every other text (not JSON, JSON of another shape, or a
\* replies array holding an entry that is not a string) yields the
\* one-element list holding the whole text.
C11_ReplyParsing ==
    [][Delivers =>
          LET x == trial.input IN
          AppendedIn(chats, chats', last'.c) =
              IF x.kind = "replies" /\ AllStrings(x.elems)
              THEN KeepNonBlank(x.elems) ELSE <<Str(x.text)>>]_vars

C11_Witness ==
    /\ trial.kind = "reply"
    /\ trial.input.kind = "replies"
    /\ trial.input.elems = <<Str(<<>>), Str(<<" ", " ">>), Str(<<"C">>)>>
    /\ last.op = "return" /\ last.c = "c1" /\ last.fault = "none"
    /\ HistoryOf(chats, "c1") = <<UserMsg0, Msg("assistant", Str(<<"C">>), now)>>

RECURSIVE SumSeq(_)
SumSeq(q) == IF Len(q) = 0 THEN 0 ELSE Head(q) + SumSeq(Tail(q))

\* C12: unread increments are additive and order-independent: after the
\* increments of sizes a1..an applied to a conversation, in whatever order
\* and however interleaved with increments of other conversations, its count
\* is its starting count (0 when absent) plus a1 + ... + an.
C12_IncrementsAdd ==
    trial.kind = "ledger" =>
        \A c \in ContactIds \ trial.cleared :
            Unread(c) = UnreadIn(trial.start, c) + SumSeq(trial.incs[c])

C12_Witness ==
    /\ trial.kind = "ledger"
    /\ trial.cleared = {}
    /\ trial.start = [c \in {"c1"} |-> 2]
    /\ trial.incs["c1"] = <<2, 1>>
    /\ trial.incs["c2"] = <<3>>
    /\ trial.c = "c1"
    /\ unreadCounts = [c \in ContactIds |-> IF c = "c1" THEN 5 ELSE 3]

\* C13: clear removes the key, so that the count reads 0; on an absent key
\* it changes nothing and writes nothing; every key the ledger holds counts
\* at least 1; and a count decreases only by a clear that removes its key.
C13_LedgerShape ==
    [][trial.kind = "ledger" =>
          /\ \A c \in DOMAIN unreadCounts : unreadCounts[c] >= 1
          /\ \A c \in DOMAIN unreadCounts' : unreadCounts'[c] >= 1
          /\ trial'.op = "clear" =>
                /\ trial'.c \notin DOMAIN unreadCounts'
                /\ UnreadIn(unreadCounts', trial'.c) = 0
                /\ trial'.c \notin DOMAIN unreadCounts =>
                      unreadCounts' = unreadCounts /\ ~trial'.wrote
                /\ trial'.c \in DOMAIN unreadCounts => trial'.wrote
          /\ \A c \in ContactIds :
                UnreadIn(unreadCounts', c) < UnreadIn(unreadCounts, c) =>
                    trial'.op = "clear" /\ trial'.c = c /\ c \notin DOMAIN unreadCounts']_vars

C13_Witness ==
    /\ trial.kind = "ledger"
    /\ trial.op = "clear" /\ trial.c = "c1" /\ trial.wrote
    /\ trial.incs["c1"] = <<2>>
    /\ UnreadIn(trial.start, "c1") = 1
    /\ "c1" \notin DOMAIN unreadCounts
    /\ "c2" \in DOMAIN unreadCounts

\* C14 (as claimed): a storage failure raised while the transcript is
\* persisted or the unread ledger incremented during a generation attempt
\* propagates out of triggerGlobalAiReply to its caller.
C14_StorageErrorPropagates ==
    last.op = "return" /\ last.raised = "storage" => last.propagated

\* C15: a due conversation that is refused admission because its flag is
\* already set has no effect: the step starts no completion call for it,
\* schedules no further release timer for it, leaves its flag set, and
\* leaves its transcript and its unread count unchanged.
C15_RefusalHasNoEffect ==
    [][\A c \in last'.refused :
          /\ c \in last'.due
          /\ c \notin last'.admitted \cup last'.fetched \cup last'.failed
          /\ processing[c] /\ processing'[c]
          /\ \A tm \in BagToSet(timers) \cup BagToSet(timers') :
                tm.c = c => CopiesIn(tm, timers') = CopiesIn(tm, timers)
          /\ Cardinality({k \in DOMAIN ticks' : ticks'[k].snap.contacts[ticks'[k].i].id = c})
                = Cardinality(InFlight(c))
          /\ HistoryOf(chats', c) = HistoryOf(chats, c)
          /\ UnreadIn(unreadCounts', c) = UnreadIn(unreadCounts, c)]_vars

C15_Witness ==
    /\ last.op = "return"
    /\ last.c = "c1"
    /\ last.raw = Str(TxtTwo)
    /\ last.refused = {"c2"}
    /\ processing["c2"]
    /\ NumTimers("c2") = 1
    /\ Unread("c1") = 2

\* eligibility read off the store as it is after the step
StoreAfter == [chatSettings |-> chatSettings', contacts |-> contacts', chats |-> chats']

\* C16 (as claimed): whenever a flag is set and a generation started for a
\* conversation, the transcript then in the store for it is non-empty, its
\* last message is human-authored and older than the idle threshold, also
\* when the admission comes later in a tick, after an await.
C16_AdmissionOnCurrentStore ==
    [][\A c \in last'.admitted : DueOn(StoreAfter, c, now')]_vars

\* a message the worker has appended
ByWorker(m) == m.role = "assistant" /\ m.timestamp >= StartTime

\* C17 (as claimed): once a generation attempt has appended assistant
\* messages to a conversation, no attempt appends to it again before a new
\* human message has been appended to it.
C17_NoRepeatedBurst ==
    [][\A c \in ContactIds :
          LET h == HistoryOf(chats, c) IN
          last'.op = "return" /\ last'.c = c /\ Len(HistoryOf(chats', c)) > Len(h) =>
              ~(Len(h) > 0 /\ ByWorker(h[Len(h)]))]_vars

IsPrefix(p, q) == Len(p) <= Len(q) /\ SubSeq(q, 1, Len(p)) = p

\* C18: a generation attempt for c changes only c's data and only by
\* appending: every message stored in any transcript when the call returns
\* is kept, in place, and the new assistant messages come after them; the
\* transcripts and the unread counts of the other conversations are
\* unchanged.
C18_AttemptOnlyAppends ==
    [][last'.op = "return" =>
          \A d \in ContactIds :
              LET h == HistoryOf(chats, d)
                  g == HistoryOf(chats', d)
              IN /\ IsPrefix(h, g)
                 /\ \A i \in (Len(h) + 1)..Len(g) : g[i].role = "assistant"
                 /\ d # last'.c =>
                       /\ g = h
                       /\ (d \in DOMAIN chats') = (d \in DOMAIN chats)
                       /\ UnreadIn(unreadCounts', d) = UnreadIn(unreadCounts, d)
                       /\ (d \in DOMAIN unreadCounts') = (d \in DOMAIN unreadCounts)]_vars

\* a message stored after the tick loaded its data is kept, and the new
\* messages come after it
C18_Witness ==
    /\ last.op = "return"
    /\ last.raw = Str(TxtTwo)
    /\ LET h == HistoryOf(chats, last.c)
           n == Len(SnapHistory(last.snap, last.c))
       IN /\ Len(h) >= n + 3
          /\ h[Len(h) - 2].role = "user"
          /\ h[Len(h) - 2].timestamp >= StartTime
          /\ h[Len(h) - 1] = Msg("assistant", Str(<<"A">>), now)
          /\ h[Len(h)] = Msg("assistant", Str(<<"B">>), now)
    /\ \E d \in ContactIds \ {last.c} : Len(HistoryOf(chats, d)) > 0 /\ Unread(d) > 0

IsBlankText(v) == v.t = "str" /\ \A i \in 1..Len(v.s) : v.s[i] = " "

\* C19 (as claimed): every assistant message the worker appends has
\* non-blank text content, whatever text the completion call returns (empty
\* or whitespace-only text included); when the parsed list is empty nothing
\* is appended and the unread count is unchanged.
C19_NoBlankMessage ==
    [][Delivers =>
          LET c == last'.c
              added == AppendedIn(chats, chats', c)
          IN /\ \A i \in 1..Len(added) : ~IsBlankText(added[i])
             /\ Len(added) = 0 => UnreadIn(unreadCounts', c) = UnreadIn(unreadCounts, c)]_vars

\* eligible on the store as it is now
Eligible(c) == DueOn(Snapshot, c, now)

\* C20: progress.  With the page visible, ticks firing, every completion
\* call returning and every release timer firing, a conversation that is
\* eligible, whatever its place in the list, is eventually admitted for a
\* generation attempt unless it stops being eligible; in particular, while
\* it cools down after a failed attempt that left it eligible, it is
\* admitted again later.
C20_EligibleEventuallyAdmitted ==
    \A c \in ContactIds :
        Eligible(c) ~> (c \in last.admitted \/ ~Eligible(c))

\* past MaxTime, a tick admits c2, the second of the list, while the call
\* for c1 has been pending since before the clock began to slide
C20_Witness ==
    /\ last.op = "tick"
    /\ last.admitted = {"c2"}
    /\ last.refused = {"c1"}
    /\ Eligible("c1") /\ Eligible("c2")
    /\ now = MaxTime
    /\ \E k \in InFlight("c1") : ticks[k].now = 0
====
